---- MODULE Spec2Model ----
(***************************************************************************)
(* A model of the DOMQL linter (src/index.js): the classification tables,  *)
(* the component detector, the structural validator, the per-file walker   *)
(* and the lint() driver with its two collector arrays.                    *)
(*                                                                         *)
(* The parser (@babel/parser) and the file system are collaborators: a     *)
(* file is given by its path and either the message of the exception that  *)
(* reading or parsing it raises, or the object literals of its syntax      *)
(* tree, with the node shapes Babel produces (ObjectProperty keys of type  *)
(* Identifier or StringLiteral, a computed flag, SpreadElement without a   *)
(* key, loc.start.line / loc.start.column).                                *)
(***************************************************************************)
EXTENDS Integers, Sequences, FiniteSets, TLC

VARIABLES files, instance, errors, warnings, pc, i, observed

vars == <<files, instance, errors, warnings, pc, i, observed>>

----------------------------------------------------------------------------
(* Bounds of the model *)

\* longest list of files drawn from CoreFiles that glob resolves
MaxFiles == 2
\* number of lint() calls observed in one behaviour
MaxRuns == 2

----------------------------------------------------------------------------
(* Generic helpers *)

\* the value of a missing JavaScript property (never a legal identifier)
Undefined == "<undefined>"

\* String.prototype.startsWith
StartsWith(s, p) == Len(s) >= Len(p) /\ SubSeq(s, 1, Len(p)) = p

RECURSIVE Flatten(_)
\* the concatenation of a sequence of sequences (successive Array.push calls)
Flatten(ss) == IF ss = <<>> THEN <<>> ELSE Head(ss) \o Flatten(Tail(ss))

\* the number of indices of s whose element satisfies Test
Count(s, Test(_)) == Cardinality({k \in 1..Len(s) : Test(s[k])})

IsPrefix(s, t) == Len(s) <= Len(t) /\ SubSeq(t, 1, Len(s)) = s

\* a name the parser can deliver as an Identifier key (no '-' and no '*')
IsIdentifierName(n) ==
  /\ Len(n) > 0
  /\ \A k \in 1..Len(n) : SubSeq(n, k, k) \notin {"-", "*", "<", ">"}

----------------------------------------------------------------------------
(* Classification tables *)

getStyleProperties ==
  { "width", "height", "margin", "padding", "border", "background", "color",
    "fontSize", "fontFamily", "fontWeight", "textAlign", "display", "position",
    "top", "left", "right", "bottom", "zIndex", "opacity", "visibility",
    "overflow", "cursor", "transition", "transform", "boxSizing", "flex",
    "flexDirection", "justifyContent", "alignItems", "gap", "grid",
    "gridTemplateColumns", "gridTemplateRows", "aspectRatio", "backdropFilter",
    "borderRadius", "boxShadow", "textDecoration", "lineHeight", "letterSpacing",
    "whiteSpace", "wordWrap", "textOverflow", "verticalAlign", "float",
    "clear", "minWidth", "maxWidth", "minHeight", "maxHeight", "flexBasis",
    "flexGrow", "flexShrink", "order", "alignSelf", "justifySelf" }

getHTMLAttributes ==
  { "id", "class", "className", "data-*", "aria-*", "role", "tabindex",
    "disabled", "readonly", "required", "checked", "selected", "value",
    "placeholder", "title", "alt", "src", "href", "target", "rel",
    "type", "name", "form", "for", "maxlength", "minlength", "pattern",
    "autocomplete", "autofocus", "multiple", "size", "rows", "cols" }

getEventHandlers ==
  { "onClick", "onMouseEnter", "onMouseLeave", "onMouseOver", "onMouseOut",
    "onMouseDown", "onMouseUp", "onKeyDown", "onKeyUp", "onKeyPress",
    "onFocus", "onBlur", "onChange", "onInput", "onSubmit", "onLoad",
    "onError", "onResize", "onScroll", "onTouchStart", "onTouchEnd",
    "onTouchMove", "onTouchCancel" }

\* the literal exception list of validateOnObject
OnExceptions == {"mouseenter", "mouseleave", "click", "keydown", "keyup"}

----------------------------------------------------------------------------
(* Syntax tree nodes, as Babel delivers them *)

NoLoc == [defined |-> FALSE, start |-> [line |-> 0, column |-> 0]]
Loc(l, c) == [defined |-> TRUE, start |-> [line |-> l, column |-> c]]

NoKey == [type |-> Undefined, name |-> Undefined, value |-> Undefined]
\* key.name is set on Identifier keys only; a StringLiteral key has key.value
IdentifierKey(n) == [type |-> "Identifier", name |-> n, value |-> Undefined]
StringKey(n) == [type |-> "StringLiteral", name |-> Undefined, value |-> n]

NoValue == [type |-> Undefined, properties |-> <<>>, loc |-> NoLoc]
\* a value that is no object literal: a string, an array, a call, a reference, a function
Leaf(t) == [type |-> t, properties |-> <<>>, loc |-> NoLoc]
ObjectExpression(props, loc) == [type |-> "ObjectExpression", properties |-> props, loc |-> loc]

ObjectProperty(key, computed, value, loc) ==
  [type |-> "ObjectProperty", hasKey |-> TRUE, key |-> key, computed |-> computed,
   argument |-> Undefined, value |-> value, loc |-> loc]
\* ...name : a SpreadElement has an argument and neither key nor value
SpreadElement(n, loc) ==
  [type |-> "SpreadElement", hasKey |-> FALSE, key |-> NoKey, computed |-> FALSE,
   argument |-> n, value |-> NoValue, loc |-> loc]

----------------------------------------------------------------------------
(* Diagnostics *)

StyleMessage(n) == "Style property '" \o n \o "' should be in 'style' object, not 'props'"
StyleSuggestion(n) == "Move '" \o n \o "' to the 'style' object"
EventMessage(n) == "Event handler '" \o n \o "' should be in 'on' object, not 'props'"
EventSuggestion(n) == "Move '" \o n \o "' to the 'on' object"
AttrMessage(n) == "HTML attribute '" \o n \o "' should be in 'props' object, not 'style'"
AttrSuggestion(n) == "Move '" \o n \o "' to the 'props' object"
OnMessage(n) == "'" \o n \o "' doesn't look like an event handler and should probably be in 'props'"
OnSuggestion(n) == "Consider moving '" \o n \o "' to the 'props' object"

\* prop.loc?.start?.line || location?.start?.line || 1
ResolveLine(propLoc, location) ==
  IF propLoc.defined /\ propLoc.start.line # 0 THEN propLoc.start.line
  ELSE IF location.defined /\ location.start.line # 0 THEN location.start.line
  ELSE 1

\* prop.loc?.start?.column || location?.start?.column || 1
ResolveColumn(propLoc, location) ==
  IF propLoc.defined /\ propLoc.start.column # 0 THEN propLoc.start.column
  ELSE IF location.defined /\ location.start.column # 0 THEN location.start.column
  ELSE 1

Warning(filePath, prop, location, message, suggestion) ==
  [file |-> filePath,
   line |-> ResolveLine(prop.loc, location),
   column |-> ResolveColumn(prop.loc, location),
   message |-> message,
   severity |-> "warning",
   suggestion |-> suggestion]

ParseError(filePath, message) ==
  [file |-> filePath, line |-> 1, column |-> 1,
   message |-> "Parse error: " \o message, severity |-> "error"]

----------------------------------------------------------------------------
(* Component Detector *)

\* node.properties.some(prop => prop.key && prop.key.name === name)
HasKeyNamed(node, name) ==
  \E k \in 1..Len(node.properties) :
    node.properties[k].hasKey /\ node.properties[k].key.name = name

isDOMQLComponent(node) ==
  LET hasExtend == HasKeyNamed(node, "extend")
      hasProps  == HasKeyNamed(node, "props")
      hasStyle  == HasKeyNamed(node, "style")
      hasOn     == HasKeyNamed(node, "on")
  IN hasExtend \/ hasProps \/ hasStyle \/ hasOn

----------------------------------------------------------------------------
(* Structural Validator *)

\* validatePropsProperty with the style-table check left out
validatePropsProperty_NoStyleCheck(prop, filePath, location, styleProps, eventHandlers) ==
  IF prop.hasKey /\ prop.key.type = "Identifier" /\ prop.key.name \in eventHandlers
  THEN <<Warning(filePath, prop, location, EventMessage(prop.key.name),
                 EventSuggestion(prop.key.name))>>
  ELSE <<>>

\* the body of the forEach callback of validatePropsObject: the warnings one property pushes
validatePropsProperty(prop, filePath, location, styleProps, eventHandlers) ==
  IF prop.hasKey /\ prop.key.type = "Identifier"
  THEN LET propName == prop.key.name
       IN (IF propName \in styleProps
           THEN <<Warning(filePath, prop, location, StyleMessage(propName), StyleSuggestion(propName))>>
           ELSE <<>>)
          \o
          (IF propName \in eventHandlers
           THEN <<Warning(filePath, prop, location, EventMessage(propName), EventSuggestion(propName))>>
           ELSE <<>>)
  ELSE <<>>

validatePropsObject(propsNode, filePath, location, styleProps, htmlAttrs, eventHandlers) ==
  Flatten([k \in 1..Len(propsNode.properties) |->
             validatePropsProperty(propsNode.properties[k], filePath, location,
                                   styleProps, eventHandlers)])

\* the body of the forEach callback of validateStyleObject
validateStyleProperty(prop, filePath, location, htmlAttrs) ==
  IF prop.hasKey /\ prop.key.type = "Identifier"
  THEN LET propName == prop.key.name
       IN IF \/ propName \in htmlAttrs
             \/ StartsWith(propName, "data-")
             \/ StartsWith(propName, "aria-")
          THEN <<Warning(filePath, prop, location, AttrMessage(propName), AttrSuggestion(propName))>>
          ELSE <<>>
  ELSE <<>>

validateStyleObject(styleNode, filePath, location, htmlAttrs) ==
  Flatten([k \in 1..Len(styleNode.properties) |->
             validateStyleProperty(styleNode.properties[k], filePath, location, htmlAttrs)])

\* validateOnProperty without the list of lower-case handler names
validateOnProperty_NoExceptions(prop, filePath, location) ==
  IF prop.hasKey /\ prop.key.type = "Identifier" /\ ~StartsWith(prop.key.name, "on")
  THEN <<Warning(filePath, prop, location, OnMessage(prop.key.name),
                 OnSuggestion(prop.key.name))>>
  ELSE <<>>

\* validateOnProperty without the startsWith('on') test
validateOnProperty_NoPrefix(prop, filePath, location) ==
  IF prop.hasKey /\ prop.key.type = "Identifier" /\ prop.key.name \notin OnExceptions
  THEN <<Warning(filePath, prop, location, OnMessage(prop.key.name),
                 OnSuggestion(prop.key.name))>>
  ELSE <<>>

\* the body of the forEach callback of validateOnObject
validateOnProperty(prop, filePath, location) ==
  IF prop.hasKey /\ prop.key.type = "Identifier"
  THEN LET propName == prop.key.name
       IN IF ~StartsWith(propName, "on") /\ propName \notin OnExceptions
          THEN <<Warning(filePath, prop, location, OnMessage(propName), OnSuggestion(propName))>>
          ELSE <<>>
  ELSE <<>>

validateOnObject(onNode, filePath, location) ==
  Flatten([k \in 1..Len(onNode.properties) |->
             validateOnProperty(onNode.properties[k], filePath, location)])

\* node.properties.find(prop => prop.key && prop.key.name === name): the index of the
\* first such property, 0 when find returns undefined
FindKeyNamed(node, name) ==
  LET hits == {k \in 1..Len(node.properties) :
                 node.properties[k].hasKey /\ node.properties[k].key.name = name}
  IN IF hits = {} THEN 0 ELSE CHOOSE k \in hits : \A h \in hits : k <= h

\* found && found.value && found.value.type === 'ObjectExpression'
IsObjectChild(node, k) ==
  k # 0 /\ node.properties[k].value.type = "ObjectExpression"

\* validateComponentStructure with the style step run before the props step
validateComponentStructure_StyleFirst(node, filePath, location) ==
  LET propsNode == FindKeyNamed(node, "props")
      styleNode == FindKeyNamed(node, "style")
      onNode    == FindKeyNamed(node, "on")
  IN (IF IsObjectChild(node, styleNode)
      THEN validateStyleObject(node.properties[styleNode].value, filePath, location,
                               getHTMLAttributes)
      ELSE <<>>)
     \o
     (IF IsObjectChild(node, propsNode)
      THEN validatePropsObject(node.properties[propsNode].value, filePath, location,
                               getStyleProperties, getHTMLAttributes, getEventHandlers)
      ELSE <<>>)
     \o
     (IF IsObjectChild(node, onNode)
      THEN validateOnObject(node.properties[onNode].value, filePath, location)
      ELSE <<>>)

validateComponentStructure(node, filePath, location) ==
  LET styleProps    == getStyleProperties
      htmlAttrs     == getHTMLAttributes
      eventHandlers == getEventHandlers
      propsNode     == FindKeyNamed(node, "props")
      styleNode     == FindKeyNamed(node, "style")
      onNode        == FindKeyNamed(node, "on")
  IN (IF IsObjectChild(node, propsNode)
      THEN validatePropsObject(node.properties[propsNode].value, filePath, location,
                               styleProps, htmlAttrs, eventHandlers)
      ELSE <<>>)
     \o
     (IF IsObjectChild(node, styleNode)
      THEN validateStyleObject(node.properties[styleNode].value, filePath, location, htmlAttrs)
      ELSE <<>>)
     \o
     (IF IsObjectChild(node, onNode)
      THEN validateOnObject(node.properties[onNode].value, filePath, location)
      ELSE <<>>)

----------------------------------------------------------------------------
(* Syntax Tree Walker *)

checkObjectExpression(node, filePath) ==
  LET location == node.loc
  IN IF isDOMQLComponent(node)
     THEN validateComponentStructure(node, filePath, location)
     ELSE <<>>

RECURSIVE traverseNode(_, _)
\* traverse() calls the ObjectExpression visitor on entering a literal, then descends
\* into the property values in declaration order
traverseNode(node, filePath) ==
  checkObjectExpression(node, filePath)
  \o Flatten([k \in 1..Len(node.properties) |->
                IF node.properties[k].value.type = "ObjectExpression"
                THEN traverseNode(node.properties[k].value, filePath)
                ELSE <<>>])

\* the warnings pushed while the tree of one parsed file is traversed
traverse(ast, filePath) ==
  Flatten([k \in 1..Len(ast) |-> traverseNode(ast[k], filePath)])

\* the diagnostics lintFile pushes for one file: the try block either completes the
\* traversal or the read/parse throws and the catch block pushes one error
lintFileErrors(file) ==
  IF file.throws THEN <<ParseError(file.path, file.message)>> ELSE <<>>

lintFileWarnings(file) ==
  IF file.throws THEN <<>> ELSE traverse(file.ast, file.path)

----------------------------------------------------------------------------
(* Inputs: the files glob can resolve *)

SourceFile(path, ast) == [path |-> path, throws |-> FALSE, message |-> "", ast |-> ast]
BrokenFile(path, message) == [path |-> path, throws |-> TRUE, message |-> message, ast |-> <<>>]

Str == Leaf("StringLiteral")
Fn == Leaf("ArrowFunctionExpression")
\* name: value at line l, column c
P(n, value, l, c) == ObjectProperty(IdentifierKey(n), FALSE, value, Loc(l, c))
\* 'name': value at line l, column c
Q(n, value, l, c) == ObjectProperty(StringKey(n), FALSE, value, Loc(l, c))

Subs == {"props", "style", "on"}

ExtraNames ==
  { "data-wrong", "data-testid", "aria-label", "backgroundColor", "onclick",
    "online", "custom", "label" }

Names == getStyleProperties \cup getHTMLAttributes \cup getEventHandlers
         \cup OnExceptions \cup ExtraNames

\* the ways a field named n can be written: n: v, 'n': v, [n]: v, ['n']: v, ...n
KeyForms == {"identifier", "string", "computedIdentifier", "computedString", "spread"}

FormsOf(n) ==
  IF IsIdentifierName(n) THEN KeyForms ELSE {"string", "computedString"}

Field(n, form, loc) ==
  CASE form = "identifier"         -> ObjectProperty(IdentifierKey(n), FALSE, Str, loc)
    [] form = "string"             -> ObjectProperty(StringKey(n), FALSE, Str, loc)
    [] form = "computedIdentifier" -> ObjectProperty(IdentifierKey(n), TRUE, Str, loc)
    [] form = "computedString"     -> ObjectProperty(StringKey(n), TRUE, Str, loc)
    [] form = "spread"             -> SpreadElement(n, loc)

\* export default { <sub>: { <field> } }
UnitFile(sub, n, form) ==
  SourceFile("unit.js",
    << ObjectExpression(
         << P(sub, ObjectExpression(<< Field(n, form, Loc(2, 4)) >>, Loc(1, 22)), 1, 17) >>,
         Loc(1, 15)) >>)

UnitFiles == UNION {{UnitFile(sub, n, form) : sub \in Subs, form \in FormsOf(n)} : n \in Names}

\* source positions of a field and of the component literal around it
LocVariants ==
  { <<Loc(3, 4), Loc(2, 2)>>, <<Loc(3, 0), Loc(2, 6)>>, <<Loc(3, 0), Loc(2, 0)>>,
    <<NoLoc, Loc(2, 2)>>, <<NoLoc, NoLoc>> }

Offender(sub) == IF sub = "props" THEN "width" ELSE "id"

LocFile(sub, v) ==
  SourceFile("loc.js",
    << ObjectExpression(
         << ObjectProperty(IdentifierKey(sub), FALSE,
              ObjectExpression(<< Field(Offender(sub), "identifier", v[1]) >>, NoLoc),
              NoLoc) >>,
         v[2]) >>)

LocFiles == {LocFile(sub, v) : sub \in Subs, v \in LocVariants}

\* export default { <key> } with the key written in each form
DetectorFile(n, form) ==
  SourceFile("detect.js", << ObjectExpression(<< Field(n, form, Loc(1, 17)) >>, Loc(1, 15)) >>)

DetectorFiles ==
  {DetectorFile(n, form) : n \in {"extend", "props", "style", "on", "label"}, form \in KeyForms}

\* const c = { props: { width: '100px', onClick: fn, id: 'x' }, style: { id: 'y' },
\*             on: { id: 'z', click: fn } }
EndToEndFile ==
  SourceFile("e2e.js",
    << ObjectExpression(
         << P("props", ObjectExpression(
                         << P("width", Str, 1, 21), P("onClick", Fn, 1, 37), P("id", Str, 1, 50) >>,
                         Loc(1, 19)), 1, 12),
            P("style", ObjectExpression(<< P("id", Str, 1, 70) >>, Loc(1, 68)), 1, 61),
            P("on", ObjectExpression(
                      << P("id", Str, 1, 87), P("click", Fn, 1, 96) >>, Loc(1, 85)), 1, 81) >>,
         Loc(1, 10)) >>)

\* src/test-component.js: BadComponent and GoodComponent
TestComponentFile ==
  SourceFile("test-component.js",
    << ObjectExpression(
         << P("extend", Str, 4, 2),
            P("props", ObjectExpression(
                 << P("width", Str, 7, 4), P("height", Str, 8, 4),
                    P("backgroundColor", Str, 9, 4), P("margin", Str, 10, 4),
                    P("onClick", Fn, 13, 4), P("onMouseEnter", Fn, 14, 4),
                    P("id", Str, 17, 4), Q("data-testid", Str, 18, 4),
                    Q("aria-label", Str, 19, 4), P("className", Str, 20, 4) >>,
                 Loc(5, 9)), 5, 2),
            P("style", ObjectExpression(
                 << P("id", Str, 24, 4), P("className", Str, 25, 4),
                    Q("data-wrong", Str, 26, 4), P("display", Str, 29, 4),
                    P("justifyContent", Str, 30, 4), P("alignItems", Str, 31, 4) >>,
                 Loc(22, 9)), 22, 2),
            P("on", ObjectExpression(
                 << P("id", Str, 35, 4), P("className", Str, 36, 4),
                    P("click", Fn, 39, 4), P("mouseenter", Fn, 40, 4) >>,
                 Loc(33, 6)), 33, 2) >>,
         Loc(3, 28)),
       ObjectExpression(
         << P("extend", Str, 45, 2),
            P("props", ObjectExpression(
                 << P("id", Str, 47, 4), P("className", Str, 48, 4),
                    Q("data-testid", Str, 49, 4), Q("aria-label", Str, 50, 4) >>,
                 Loc(46, 9)), 46, 2),
            P("style", ObjectExpression(
                 << P("width", Str, 53, 4), P("height", Str, 54, 4),
                    P("backgroundColor", Str, 55, 4), P("display", Str, 56, 4),
                    P("justifyContent", Str, 57, 4), P("alignItems", Str, 58, 4) >>,
                 Loc(52, 9)), 52, 2),
            P("on", ObjectExpression(
                 << P("click", Fn, 61, 4), P("mouseenter", Fn, 62, 4) >>,
                 Loc(60, 6)), 60, 2) >>,
         Loc(44, 29)) >>)

\* export const Outer = {
\*   extend: 'div',
\*   props: { child: { style: { title: 't' } }, width: '1px' },
\*   style: { href: 'x' },
\*   on: { value: 1, inner: { on: { name: 1 } } }
\* }
NestedFile ==
  SourceFile("nested.js",
    << ObjectExpression(
         << P("extend", Str, 2, 2),
            P("props", ObjectExpression(
                 << P("child",
                      ObjectExpression(
                        << P("style", ObjectExpression(<< P("title", Str, 3, 29) >>, Loc(3, 27)),
                             3, 20) >>,
                        Loc(3, 18)), 3, 11),
                    P("width", Str, 3, 45) >>,
                 Loc(3, 9)), 3, 2),
            P("style", ObjectExpression(<< P("href", Str, 4, 11) >>, Loc(4, 9)), 4, 2),
            P("on", ObjectExpression(
                 << P("value", Str, 5, 8),
                    P("inner",
                      ObjectExpression(
                        << P("on", ObjectExpression(<< P("name", Str, 5, 33) >>, Loc(5, 31)),
                             5, 27) >>,
                        Loc(5, 25)), 5, 18) >>,
                 Loc(5, 6)), 5, 2) >>,
         Loc(1, 21)) >>)

\* export default { extend: 'div', props: { id: 'a', 'data-testid': 'b', 'aria-label': 'c' } }
GoodFile ==
  SourceFile("good.js",
    << ObjectExpression(
         << P("extend", Str, 1, 17),
            P("props", ObjectExpression(
                 << P("id", Str, 1, 41), Q("data-testid", Str, 1, 50),
                    Q("aria-label", Str, 1, 70) >>,
                 Loc(1, 39)), 1, 32) >>,
         Loc(1, 15)) >>)

\* const a = { props: getProps(), props: { width: 1 } }
\* const b = { style: { id: 1 }, style: { title: 1 } }
DuplicateKeyFile ==
  SourceFile("dup.js",
    << ObjectExpression(
         << P("props", Leaf("CallExpression"), 1, 12),
            P("props", ObjectExpression(<< P("width", Str, 1, 40) >>, Loc(1, 38)), 1, 31) >>,
         Loc(1, 10)),
       ObjectExpression(
         << P("style", ObjectExpression(<< P("id", Str, 2, 21) >>, Loc(2, 19)), 2, 12),
            P("style", ObjectExpression(<< P("title", Str, 2, 39) >>, Loc(2, 37)), 2, 30) >>,
         Loc(2, 10)) >>)

\* const a = { 'props': { width: 1 } }
\* const b = { [style]: { id: 1 } }
\* const c = { label: 'x', nested: { on: [] } }
KeyFormsFile ==
  SourceFile("keys.js",
    << ObjectExpression(
         << Q("props", ObjectExpression(<< P("width", Str, 1, 23) >>, Loc(1, 21)), 1, 12) >>,
         Loc(1, 10)),
       ObjectExpression(
         << ObjectProperty(IdentifierKey("style"), TRUE,
              ObjectExpression(<< P("id", Str, 2, 23) >>, Loc(2, 21)), Loc(2, 12)) >>,
         Loc(2, 10)),
       ObjectExpression(
         << P("label", Str, 3, 12),
            P("nested", ObjectExpression(<< P("on", Leaf("ArrayExpression"), 3, 34) >>,
                                         Loc(3, 32)), 3, 24) >>,
         Loc(3, 10)) >>)

\* two files the parser rejects
BrokenFileA == BrokenFile("broken.js", "Unexpected token (1:7)")
BrokenFileB == BrokenFile("broken.ts", "Missing semicolon. (2:3)")

CoreFiles ==
  { EndToEndFile, TestComponentFile, NestedFile, GoodFile, DuplicateKeyFile,
    KeyFormsFile, BrokenFileA, BrokenFileB }

\* glob returns each path once
DistinctPaths(fs) == \A a, b \in 1..Len(fs) : fs[a].path = fs[b].path => a = b

CoreLists ==
  {fs \in UNION {[1..n -> CoreFiles] : n \in 0..MaxFiles} : DistinctPaths(fs)}

FileLists ==
  CoreLists \cup {<<f>> : f \in UnitFiles \cup LocFiles \cup DetectorFiles}

----------------------------------------------------------------------------
(* The linter and its driver *)

Snapshot(success) ==
  [instance |-> instance, files |-> files, errors |-> errors, warnings |-> warnings,
   success |-> success]

\* new DOMQLLinter(options): files are what glob will resolve from options.files
Init ==
  /\ files \in FileLists
  /\ instance = 1
  /\ errors = <<>>
  /\ warnings = <<>>
  /\ pc = "constructed"
  /\ i = 1
  /\ observed = <<>>

\* lint() up to the for loop: glob resolves options.files
LintStart ==
  /\ pc = "constructed"
  /\ Len(observed) < MaxRuns
  /\ pc' = "linting"
  /\ i' = 1
  /\ UNCHANGED <<files, instance, errors, warnings, observed>>

\* lintFile without the try/catch boundary per file: the exception ends the loop
lintFile_Abort ==
  /\ pc = "linting"
  /\ i <= Len(files)
  /\ errors' = errors \o lintFileErrors(files[i])
  /\ warnings' = warnings \o lintFileWarnings(files[i])
  /\ i' = IF files[i].throws THEN Len(files) + 1 ELSE i + 1
  /\ UNCHANGED <<files, instance, pc, observed>>

\* one iteration of the for loop of lint(): this.lintFile(file)
lintFile ==
  /\ pc = "linting"
  /\ i <= Len(files)
  /\ errors' = errors \o lintFileErrors(files[i])
  /\ warnings' = warnings \o lintFileWarnings(files[i])
  /\ i' = i + 1
  /\ UNCHANGED <<files, instance, pc, observed>>

\* lint() resolving to "no issue at all"
lintResult_Strict == Len(errors) = 0 /\ Len(warnings) = 0

\* what lint() resolves to
lintResult == Len(errors) = 0

\* the end of lint(): reportResults() prints, and the promise resolves
LintReturn ==
  /\ pc = "linting"
  /\ i > Len(files)
  /\ observed' = Append(observed, Snapshot(lintResult))
  /\ pc' = "constructed"
  /\ UNCHANGED <<files, instance, errors, warnings, i>>

\* a second linter is constructed with the same options
Construct ==
  /\ pc = "constructed"
  /\ \E k \in 1..Len(observed) : observed[k].instance = instance
  /\ Len(observed) < MaxRuns
  /\ instance' = instance + 1
  /\ errors' = <<>>
  /\ warnings' = <<>>
  /\ UNCHANGED <<files, pc, i, observed>>

\* a second linter is constructed with the unparsable files added to options.ignore
ConstructIgnoring ==
  /\ pc = "constructed"
  /\ \E k \in 1..Len(observed) : observed[k].instance = instance
  /\ Len(observed) < MaxRuns
  /\ \E k \in 1..Len(files) : files[k].throws
  /\ files' = SelectSeq(files, LAMBDA f : ~f.throws)
  /\ instance' = instance + 1
  /\ errors' = <<>>
  /\ warnings' = <<>>
  /\ UNCHANGED <<pc, i, observed>>

Next == LintStart \/ lintFile \/ LintReturn \/ Construct \/ ConstructIgnoring

Spec == Init /\ [][Next]_vars

----------------------------------------------------------------------------
(* Vocabulary of the properties *)

\* no lint() has completed on the current linter: its collectors hold one run only
FirstRun == \A k \in 1..Len(observed) : observed[k].instance # instance

\* files[k] has been linted in the first lint() of the current linter
Linted(k) == FirstRun /\ pc = "linting" /\ k < i

\* the run over all files is complete and lint() is about to return
RunComplete == FirstRun /\ pc = "linting" /\ i > Len(files)

\* a key written as a plain static identifier:  name: value
PlainIdentifier(p) == p.hasKey /\ ~p.computed /\ p.key.type = "Identifier"

\* the name a field's key (or spread argument) carries in the source text
WrittenName(p) ==
  IF ~p.hasKey THEN p.argument
  ELSE IF p.key.type = "Identifier" THEN p.key.name ELSE p.key.value

\* a static key written the one way its name allows: name: v, or 'na-me': v when the
\* name is no identifier
Canonical(p) ==
  /\ p.hasKey /\ ~p.computed
  /\ \/ p.key.type = "Identifier"
     \/ p.key.type = "StringLiteral" /\ ~IsIdentifierName(p.key.value)

\* a root literal whose direct keys are distinct plain identifiers and whose
\* sub-objects hold no further object literal
SimpleRoot(r) ==
  \A a \in 1..Len(r.properties) :
    LET q == r.properties[a]
    IN /\ PlainIdentifier(q)
       /\ \A b \in 1..Len(r.properties) : r.properties[b].key.name = q.key.name => a = b
       /\ \A c \in 1..Len(q.value.properties) :
            q.value.properties[c].value.type # "ObjectExpression"

\* a parsed file all of whose object literals are simple roots and their sub-objects
SimpleFile(f) == ~f.throws /\ \A r \in 1..Len(f.ast) : SimpleRoot(f.ast[r])

\* the fields of the object literal that root r declares under key sub
SubFields(r, sub) ==
  LET hits == {a \in 1..Len(r.properties) :
                 /\ PlainIdentifier(r.properties[a])
                 /\ r.properties[a].key.name = sub
                 /\ r.properties[a].value.type = "ObjectExpression"}
  IN IF hits = {} THEN <<>> ELSE r.properties[CHOOSE a \in hits : TRUE].value.properties

\* the fields named n, of a shape Shape, declared under key sub by the roots of file f
Occurrences(f, sub, n, Shape(_)) ==
  Cardinality(UNION {
    {<<r, c>> : c \in {d \in 1..Len(SubFields(f.ast[r], sub)) :
                         /\ Shape(SubFields(f.ast[r], sub)[d])
                         /\ WrittenName(SubFields(f.ast[r], sub)[d]) = n}}
    : r \in 1..Len(f.ast)})

\* every field named n that file f declares under key sub has shape Shape
OnlyWritten(f, sub, n, Shape(_)) ==
  Occurrences(f, sub, n, LAMBDA p : ~Shape(p)) = 0

\* the warnings collected for file f whose suggestion is s
Suggested(f, s) == Count(warnings, LAMBDA w : w.file = f.path /\ w.suggestion = s)

\* the same, with the rest of the record as the validator writes it
Reported(f, m, s) ==
  Count(warnings, LAMBDA w : /\ w.file = f.path /\ w.suggestion = s
                             /\ w.message = m /\ w.severity = "warning")

\* the warnings collected for file f
FileWarnings(f) == SelectSeq(warnings, LAMBDA w : w.file = f.path)

Suggestions(ws) == [k \in 1..Len(ws) |-> ws[k].suggestion]

----------------------------------------------------------------------------
(* C1 *)

IsAttributeName(n) ==
  n \in getHTMLAttributes \/ StartsWith(n, "data-") \/ StartsWith(n, "aria-")

\* C1: for every name n of the attribute table, or beginning with data- or aria-
\* (names such as data-wrong, which only a quoted key can carry, included), each field
\* n of a component's style literal yields exactly one warning with suggestion
\* "Move 'n' to the 'props' object", and a field n of its props literal yields none.
C1_AttributesBelongInProps ==
  \A k \in 1..Len(files) :
    Linted(k) /\ SimpleFile(files[k]) =>
      \A n \in {m \in Names : /\ IsAttributeName(m)
                               /\ OnlyWritten(files[k], "style", m, Canonical)
                               /\ OnlyWritten(files[k], "props", m, Canonical)} :
        /\ Reported(files[k], AttrMessage(n), AttrSuggestion(n))
             = Occurrences(files[k], "style", n, Canonical)
        /\ Occurrences(files[k], "props", n, Canonical) > 0 =>
             /\ Suggested(files[k], StyleSuggestion(n)) = 0
             /\ Suggested(files[k], EventSuggestion(n)) = 0

----------------------------------------------------------------------------
(* C2 *)

\* C2: for every name n of the style table (written as a plain identifier key, the
\* fields the validator reads), each field n of a
\* component's props literal yields exactly one warning, which names n and suggests the
\* style object, and a field n of its style literal yields no warning.
C2_StyleNamesBelongInStyle ==
  \A k \in 1..Len(files) :
    Linted(k) /\ SimpleFile(files[k]) =>
      \A n \in {m \in getStyleProperties :
                   OnlyWritten(files[k], "props", m, PlainIdentifier)} :
        /\ Reported(files[k], StyleMessage(n), StyleSuggestion(n))
             = Occurrences(files[k], "props", n, PlainIdentifier)
        /\ Suggested(files[k], StyleSuggestion(n))
             = Occurrences(files[k], "props", n, PlainIdentifier)
        /\ Suggested(files[k], EventSuggestion(n)) = 0
        /\ Suggested(files[k], AttrSuggestion(n)) = 0

\* a linted file with a style name both in a props literal (warned once) and in a
\* style literal (not warned)
C2_Witness ==
  \E k \in 1..Len(files) :
    /\ Linted(k) /\ SimpleFile(files[k])
    /\ \E n \in getStyleProperties :
         /\ Occurrences(files[k], "props", n, PlainIdentifier) = 1
         /\ Occurrences(files[k], "style", n, PlainIdentifier) = 1
         /\ Suggested(files[k], StyleSuggestion(n)) = 1

----------------------------------------------------------------------------
(* C3 *)

\* C3: for every name n of the event table, each field n (a plain identifier key) of a
\* component's props literal yields exactly one warning, suggesting the on object; and
\* each of mouseenter, mouseleave, click, keydown, keyup inside an on literal yields no
\* warning.
C3_EventNamesBelongInOn ==
  \A k \in 1..Len(files) :
    Linted(k) /\ SimpleFile(files[k]) =>
      /\ \A n \in {m \in getEventHandlers :
                      OnlyWritten(files[k], "props", m, PlainIdentifier)} :
           /\ Reported(files[k], EventMessage(n), EventSuggestion(n))
                = Occurrences(files[k], "props", n, PlainIdentifier)
           /\ Suggested(files[k], EventSuggestion(n))
                = Occurrences(files[k], "props", n, PlainIdentifier)
           /\ Suggested(files[k], StyleSuggestion(n)) = 0
      /\ \A n \in {m \in OnExceptions : OnlyWritten(files[k], "on", m, PlainIdentifier)} :
           Suggested(files[k], OnSuggestion(n)) = 0

\* a linted file with an event name in a props literal (warned once) and a lower-case
\* handler in an on literal (not warned)
C3_Witness ==
  \E k \in 1..Len(files) :
    /\ Linted(k) /\ SimpleFile(files[k])
    /\ \E n \in getEventHandlers :
         /\ Occurrences(files[k], "props", n, PlainIdentifier) = 1
         /\ Suggested(files[k], EventSuggestion(n)) = 1
    /\ \E n \in OnExceptions :
         /\ Occurrences(files[k], "on", n, PlainIdentifier) = 1
         /\ Suggested(files[k], OnSuggestion(n)) = 0

----------------------------------------------------------------------------
(* C4 *)

LooksLikeHandler(n) == StartsWith(n, "on") \/ n \in OnExceptions

\* C4: each field (a plain identifier key) of a component's on literal whose name neither
\* starts with "on" nor is one of the five exceptions yields exactly one warning, with
\* suggestion "Consider moving 'n' to the 'props' object"; a field whose name starts with
\* "on" or is an exception yields none.
C4_OnHoldsHandlersOnly ==
  \A k \in 1..Len(files) :
    Linted(k) /\ SimpleFile(files[k]) =>
      \A n \in {m \in Names : OnlyWritten(files[k], "on", m, PlainIdentifier)} :
        IF LooksLikeHandler(n)
        THEN Suggested(files[k], OnSuggestion(n)) = 0
        ELSE /\ Reported(files[k], OnMessage(n), OnSuggestion(n))
                  = Occurrences(files[k], "on", n, PlainIdentifier)
             /\ Suggested(files[k], OnSuggestion(n))
                  = Occurrences(files[k], "on", n, PlainIdentifier)

\* a linted on literal with a non-handler field (warned once) and a handler (not warned)
C4_Witness ==
  \E k \in 1..Len(files) :
    /\ Linted(k) /\ SimpleFile(files[k])
    /\ \E n \in Names :
         /\ ~LooksLikeHandler(n)
         /\ Occurrences(files[k], "on", n, PlainIdentifier) = 1
         /\ Suggested(files[k], OnSuggestion(n)) = 1
    /\ \E n \in Names :
         /\ LooksLikeHandler(n)
         /\ Occurrences(files[k], "on", n, PlainIdentifier) = 1
         /\ Suggested(files[k], OnSuggestion(n)) = 0

----------------------------------------------------------------------------
(* C5 *)

\* the snapshot observed[a] is the first lint() of its linter
FirstOfInstance(a) == \A b \in 1..(a - 1) : observed[b].instance # observed[a].instance

Parses(f) == ~f.throws

\* C5: each file that fails to parse adds exactly one error (line 1, column 1, severity
\* error, message prefixed "Parse error: ") and no warning; each file that parses adds
\* no error; and the warnings of a run are those of the run over the same list without
\* the failing files.
C5_ParseFailureIsolated ==
  /\ \A k \in 1..Len(files) :
       Linted(k) =>
         IF files[k].throws
         THEN /\ Count(errors, LAMBDA e : e.file = files[k].path) = 1
              /\ \A e \in 1..Len(errors) :
                   errors[e].file = files[k].path =>
                     /\ errors[e].line = 1
                     /\ errors[e].column = 1
                     /\ errors[e].severity = "error"
                     /\ StartsWith(errors[e].message, "Parse error: ")
              /\ FileWarnings(files[k]) = <<>>
         ELSE Count(errors, LAMBDA e : e.file = files[k].path) = 0
  /\ FirstRun /\ pc = "linting" =>
       Len(errors) = Cardinality({k \in 1..(i - 1) : files[k].throws})
  /\ \A a, b \in 1..Len(observed) :
       /\ FirstOfInstance(a) /\ FirstOfInstance(b)
       /\ observed[b].files = SelectSeq(observed[a].files, Parses)
       => observed[b].warnings = observed[a].warnings

\* a run in which a failing file precedes a file with warnings, and the run of a second
\* linter over the list without the failing file
C5_Witness ==
  \E a, b \in 1..Len(observed) :
    /\ a < b
    /\ Len(observed[a].files) > 1
    /\ observed[a].files[1].throws
    /\ Len(observed[a].errors) = 1
    /\ observed[b].files = SelectSeq(observed[a].files, Parses)
    /\ observed[b].errors = <<>>
    /\ observed[b].warnings = observed[a].warnings
    /\ observed[a].warnings # <<>>

----------------------------------------------------------------------------
(* C6 *)

\* C6: lint() returns true exactly when the run produced no error-severity diagnostic
\* (no file of the run failed to parse), whatever the number of warnings.
C6_SuccessIffNoErrors ==
  \A k \in 1..Len(observed) :
    LET o == observed[k]
    IN /\ o.success = (\A j \in 1..Len(o.files) : ~o.files[j].throws)
       /\ o.success = (/\ \A e \in 1..Len(o.errors) : o.errors[e].severity # "error"
                       /\ \A w \in 1..Len(o.warnings) : o.warnings[w].severity # "error")

\* a run that returned true with warnings collected
C6_Witness ==
  \E k \in 1..Len(observed) :
    /\ observed[k].success
    /\ Len(observed[k].warnings) >= 4
    /\ observed[k].errors = <<>>

----------------------------------------------------------------------------
(* C7 *)

\* C7: two runs over unchanged input yield the same diagnostic sequences and the same
\* success flag, whether the second run is the first lint() of a fresh linter or a
\* second lint() of the same linter.
C7_RerunIdentical ==
  \A a, b \in 1..Len(observed) :
    a < b /\ observed[a].files = observed[b].files =>
      /\ observed[b].errors = observed[a].errors
      /\ observed[b].warnings = observed[a].warnings
      /\ observed[b].success = observed[a].success

----------------------------------------------------------------------------
(* C8 *)

SubOfRank(r) == IF r = 1 THEN "props" ELSE IF r = 2 THEN "style" ELSE "on"

\* the suggestions the step for sub-object sub writes about a field named n
Origin(sub, n) ==
  IF sub = "props" THEN {StyleSuggestion(n), EventSuggestion(n)}
  ELSE IF sub = "style" THEN {AttrSuggestion(n)}
  ELSE {OnSuggestion(n)}

\* the places <<root, sub-object rank, field index>> of file f that warning w can be about
Places(f, w) ==
  UNION { UNION { {<<r, s, c>> : c \in {d \in 1..Len(SubFields(f.ast[r], SubOfRank(s))) :
                      w.suggestion \in
                        Origin(SubOfRank(s), WrittenName(SubFields(f.ast[r], SubOfRank(s))[d]))}}
                  : s \in 1..3 }
          : r \in 1..Len(f.ast) }

Before(x, y) ==
  \/ x[1] < y[1]
  \/ x[1] = y[1] /\ x[2] < y[2]
  \/ x[1] = y[1] /\ x[2] = y[2] /\ x[3] < y[3]

FileIndex(path) == CHOOSE k \in 1..Len(files) : files[k].path = path

EndToEndSuggestions ==
  << "Move 'width' to the 'style' object", "Move 'onClick' to the 'on' object",
     "Move 'id' to the 'props' object", "Consider moving 'id' to the 'props' object" >>

\* outer literal (props, style, on) before the literals nested in its props and its on
NestedSuggestions ==
  << "Move 'width' to the 'style' object", "Move 'href' to the 'props' object",
     "Consider moving 'value' to the 'props' object",
     "Consider moving 'inner' to the 'props' object",
     "Move 'title' to the 'props' object", "Consider moving 'name' to the 'props' object" >>

C8_Order ==
  /\ FirstRun =>
       \* by position of the file in the list
       /\ \A a, b \in 1..Len(warnings) :
            a < b => FileIndex(warnings[a].file) <= FileIndex(warnings[b].file)
       /\ \A a, b \in 1..Len(errors) :
            a < b => FileIndex(errors[a].file) < FileIndex(errors[b].file)
  /\ \A k \in 1..Len(files) :
       Linted(k) =>
         \* then by root, by sub-object props, style, on, and by field
         /\ SimpleFile(files[k]) =>
              LET ws == FileWarnings(files[k])
              IN \A a, b \in 1..Len(ws) :
                   /\ a < b
                   /\ Cardinality(Places(files[k], ws[a])) = 1
                   /\ Cardinality(Places(files[k], ws[b])) = 1
                   => \E x \in Places(files[k], ws[a]) :
                        \E y \in Places(files[k], ws[b]) : Before(x, y)
         \* an outer literal before the literals nested in it
         /\ files[k] = NestedFile =>
              Suggestions(FileWarnings(files[k])) = NestedSuggestions
         /\ files[k] = EndToEndFile =>
              /\ Suggestions(FileWarnings(files[k])) = EndToEndSuggestions
              /\ \A e \in 1..Len(errors) : errors[e].file # files[k].path

\* the collectors of one linter only grow at their end
AppendOnly ==
  instance' = instance => IsPrefix(errors, errors') /\ IsPrefix(warnings, warnings')

----------------------------------------------------------------------------
(* C9 *)

\* C9: a field of a props, style or on literal whose key is not a plain static
\* identifier (computed, spread, or any other key) yields no diagnostic and no error,
\* whatever name its key expression carries.
C9_NonPlainKeysSkipped ==
  \A k \in 1..Len(files) :
    Linted(k) /\ SimpleFile(files[k]) =>
      /\ Count(errors, LAMBDA e : e.file = files[k].path) = 0
      /\ \A sub \in Subs :
           \A n \in {m \in Names :
                       /\ Occurrences(files[k], sub, m, LAMBDA p : TRUE) > 0
                       /\ OnlyWritten(files[k], sub, m, LAMBDA p : ~PlainIdentifier(p))} :
             \A s \in Origin(sub, n) : Suggested(files[k], s) = 0

----------------------------------------------------------------------------
(* C10 *)

RECURSIVE Literals(_)
\* the object literals of the tree under a literal, itself included
Literals(node) ==
  {node} \cup UNION {Literals(node.properties[a].value) :
                       a \in {b \in 1..Len(node.properties) :
                                node.properties[b].value.type = "ObjectExpression"}}

FileLiterals(f) == UNION {Literals(f.ast[r]) : r \in 1..Len(f.ast)}

ComponentKeys == {"extend", "props", "style", "on"}

\* a direct, non-computed key written as an identifier or as a string names a
\* component key
DeclaresComponentKey(node) ==
  \E a \in 1..Len(node.properties) :
    LET p == node.properties[a]
    IN /\ p.hasKey /\ ~p.computed
       /\ p.key.type \in {"Identifier", "StringLiteral"}
       /\ WrittenName(p) \in ComponentKeys

\* C10: isDOMQLComponent(node) is true exactly when a direct key of the literal, not
\* computed and written as an identifier or a string, is one of extend, props, style,
\* on; computed keys and spread elements never make it true.
C10_ComponentDetector ==
  \A k \in 1..Len(files) :
    Linted(k) =>
      \A node \in FileLiterals(files[k]) :
        isDOMQLComponent(node) <=> DeclaresComponentKey(node)

----------------------------------------------------------------------------
(* C11 *)

\* the position the three-tier fallback names: the property's own, else the component
\* literal's, else line 1, column 1
FallbackLine(prop, location) ==
  IF prop.loc.defined THEN prop.loc.start.line
  ELSE IF location.defined THEN location.start.line ELSE 1

FallbackColumn(prop, location) ==
  IF prop.loc.defined THEN prop.loc.start.column
  ELSE IF location.defined THEN location.start.column ELSE 1

\* C11: the line and the column of every warning of the structural validator are the
\* property's own source position whenever the property has one (column 0 included),
\* otherwise the position of the enclosing component literal, otherwise 1 and 1.
C11_LocationFallback ==
  \A k \in 1..Len(files) :
    Linted(k) /\ SimpleFile(files[k]) =>
      \A a \in 1..Len(warnings) :
        /\ warnings[a].file = files[k].path
        /\ Cardinality(Places(files[k], warnings[a])) = 1
        => \A x \in Places(files[k], warnings[a]) :
             LET location == files[k].ast[x[1]].loc
                 prop     == SubFields(files[k].ast[x[1]], SubOfRank(x[2]))[x[3]]
             IN /\ warnings[a].line = FallbackLine(prop, location)
                /\ warnings[a].column = FallbackColumn(prop, location)

----------------------------------------------------------------------------
(* C12 *)

\* a parsed file whose roots declare plain identifier keys (possibly the same key more
\* than once) and whose sub-objects hold no further object literal
FlatFile(f) ==
  /\ ~f.throws
  /\ \A r \in 1..Len(f.ast) :
       \A a \in 1..Len(f.ast[r].properties) :
         LET q == f.ast[r].properties[a]
         IN /\ PlainIdentifier(q)
            /\ \A c \in 1..Len(q.value.properties) :
                 q.value.properties[c].value.type # "ObjectExpression"

\* the direct children of root r keyed sub whose value is an object literal
ObjectChildren(r, sub) ==
  {a \in 1..Len(r.properties) :
     /\ PlainIdentifier(r.properties[a])
     /\ r.properties[a].key.name = sub
     /\ r.properties[a].value.type = "ObjectExpression"}

\* a field name the step for sub-object sub warns about
Misplaced(sub, n) ==
  IF sub = "props" THEN n \in getStyleProperties \cup getEventHandlers
  ELSE IF sub = "style" THEN IsAttributeName(n)
  ELSE ~LooksLikeHandler(n)

\* the warnings collected for file f that the step for sub-object sub writes
StepWarnings(f, sub) ==
  Count(warnings, LAMBDA w : /\ w.file = f.path
                             /\ \E n \in Names : w.suggestion \in Origin(sub, n))

\* C12: for each key props, style, on, the fields of a direct child with that key
\* and an object-literal value are checked whenever such a child exists (also when the
\* key is declared more than once), and the step is silent when no direct child with
\* that key has an object-literal value.
C12_ObjectChildChecked ==
  \A k \in 1..Len(files) :
    Linted(k) /\ FlatFile(files[k]) =>
      \A sub \in Subs :
        /\ \A r \in 1..Len(files[k].ast) :
             (\E a \in ObjectChildren(files[k].ast[r], sub) :
                \E c \in 1..Len(files[k].ast[r].properties[a].value.properties) :
                  LET p == files[k].ast[r].properties[a].value.properties[c]
                  IN PlainIdentifier(p) /\ Misplaced(sub, p.key.name))
             => \E a \in ObjectChildren(files[k].ast[r], sub) :
                  \E c \in 1..Len(files[k].ast[r].properties[a].value.properties) :
                    LET p == files[k].ast[r].properties[a].value.properties[c]
                    IN /\ PlainIdentifier(p) /\ Misplaced(sub, p.key.name)
                       /\ \E s \in Origin(sub, p.key.name) : Suggested(files[k], s) > 0
        /\ (\A r \in 1..Len(files[k].ast) : ObjectChildren(files[k].ast[r], sub) = {})
             => StepWarnings(files[k], sub) = 0

====
